---- MODULE Spec2Model ----
(***************************************************************************)
(* Fine-tuning lifecycle of the report generator: the four Netlify         *)
(* functions store-training-data (src/unnamed/part_000), fine-tune,        *)
(* check-finetune-status and generate-report, over the Supabase tables     *)
(* training_data and app_settings and the OpenAI files / fine-tuning API.  *)
(* Every await of a handler is one atomic step; invocations interleave at  *)
(* the awaits.  Store and provider calls may fail.                         *)
(***************************************************************************)
EXTENDS Integers, Sequences, FiniteSets, TLC

VARIABLES
    training_data,  \* Supabase table training_data: rows oldest first
    settings,       \* Supabase table app_settings: the three lifecycle keys
    jobs,           \* OpenAI fine-tuning jobs as last seen, jobs[id]
    files,          \* OpenAI uploaded files, files[id] = the .jsonl lines
    collector,      \* store-training-data invocations
    launcher,       \* fine-tune invocations
    poller,         \* check-finetune-status invocations
    generator,      \* generate-report invocations
    calls           \* number of requests served so far (bounds the run)

vars == <<training_data, settings, jobs, files,
          collector, launcher, poller, generator, calls>>

----------------------------------------------------------------------------
(* Bounds of the model *)

MaxCalls == 2

(* Program constants *)

BatchSize == 5
Threshold == 9

Absent == "<absent>"
Undefined == "<undefined>"
DefaultModel == "gpt-4o-2024-08-06"
BaseModel == "gpt-4o-2024-08-06"
SystemInstruction ==
    "You are a specialized forensic report generator. Provide thorough, professional, consistent content."
UserInstruction ==
    "Generate a complete forensic engineering report based on the user's inputs and data."

----------------------------------------------------------------------------
(* JavaScript values that a JSON body can carry as a rating, and Number() *)

JSNumber(k) == [t |-> "number", n |-> k, s |-> <<>>]
JSString(cs) == [t |-> "string", n |-> 0, s |-> cs]
JSNull == [t |-> "null", n |-> 0, s |-> <<>>]
JSBool(b) == [t |-> "boolean", n |-> IF b THEN 1 ELSE 0, s |-> <<>>]
JSUndefined == [t |-> "undefined", n |-> 0, s |-> <<>>]

NaN == [nan |-> TRUE, n |-> 0]
Num(k) == [nan |-> FALSE, n |-> k]

Digits == <<"0", "1", "2", "3", "4", "5", "6", "7", "8", "9">>

IsDigit(c) == \E i \in 1..10 : Digits[i] = c

DigitValue(c) == (CHOOSE i \in 1..10 : Digits[i] = c) - 1

RECURSIVE TrimLeft(_)
TrimLeft(cs) == IF cs # <<>> /\ Head(cs) = " " THEN TrimLeft(Tail(cs)) ELSE cs

RECURSIVE TrimRight(_)
TrimRight(cs) ==
    IF cs # <<>> /\ cs[Len(cs)] = " "
    THEN TrimRight(SubSeq(cs, 1, Len(cs) - 1))
    ELSE cs

RECURSIVE DecimalValue(_)
DecimalValue(cs) ==
    IF cs = <<>> THEN 0
    ELSE 10 * DecimalValue(SubSeq(cs, 1, Len(cs) - 1)) + DigitValue(cs[Len(cs)])

\* Number(string): surrounding blanks are dropped, "" is 0, a run of decimal
\* digits is its value, anything else is NaN.
StringToNumber(cs) ==
    LET t == TrimRight(TrimLeft(cs))
    IN  IF t = <<>> THEN Num(0)
        ELSE IF \A i \in 1..Len(t) : IsDigit(t[i]) THEN Num(DecimalValue(t))
        ELSE NaN

\* Number(v) of store-training-data line 70.
ToNumber(v) ==
    CASE v.t = "number" -> Num(v.n)
      [] v.t = "string" -> StringToNumber(v.s)
      [] v.t = "null" -> Num(0)
      [] v.t = "boolean" -> Num(v.n)

\* allAboveNine, lines 69-72: every section's rating is a number >= 9.
AllAboveNine_Some(ratings) ==
    \E section \in DOMAIN ratings :
        LET val == ToNumber(ratings[section])
        IN  ~val.nan /\ val.n >= Threshold

AllAboveNine(ratings) ==
    \A section \in DOMAIN ratings :
        LET val == ToNumber(ratings[section])
        IN  ~val.nan /\ val.n >= Threshold

\* line 118: count % 5 === 0 && count > 0
ShouldTrigger_AtLeast(count) == count >= BatchSize

ShouldTrigger_EveryRow(count) == count > 0

ShouldTrigger(count) == count % BatchSize = 0 /\ count > 0

----------------------------------------------------------------------------
(* Identifiers *)

Collectors == {"c1", "c2"}
Launchers == {"l1", "l2"}
Pollers == {"p1"}
Generators == {"g1"}

\* fineTune.id and fine_tuned_model of the i-th job the provider creates.
JobIds == <<"ftjob-1", "ftjob-2", "ftjob-3", "ftjob-4">>
ModelNames == <<"ft:model-1", "ft:model-2", "ft:model-3", "ft:model-4">>

JobIndex(id) == CHOOSE i \in 1..Len(JobIds) : JobIds[i] = id

\* Outcome of a Supabase call: a result, an { error } value, or a rejection.
StoreOutcomes == {"ok", "error", "throw"}
\* Outcome of an OpenAI SDK call: a result or a rejection.
ApiOutcomes == {"ok", "throw"}

----------------------------------------------------------------------------
(* store-training-data: requests *)

Sections == {"introduction", "background"}

RatingValues ==
    { JSNumber(8), JSNumber(9), JSString(<<"1", "0">>), JSString(<<"a">>),
      JSNull }

RatingMaps == UNION { [D -> RatingValues] : D \in SUBSET Sections }

NoRatings == [kind |-> "undefined", map |-> << >>]

RatingInputs ==
    { NoRatings, [kind |-> "null", map |-> << >>] }
      \cup { [kind |-> "object", map |-> m] : m \in RatingMaps }

NoRequest ==
    [httpMethod |-> "none", body |-> "none", finalReportText |-> JSUndefined,
     ratings |-> NoRatings, metadata |-> Undefined]

PostBody(text, ratings) ==
    [httpMethod |-> "POST", body |-> "json", finalReportText |-> text,
     ratings |-> ratings, metadata |-> "meta"]

\* event.body that JSON.parse rejects, or that parses to null (lines 45).
BrokenRequests ==
    { [NoRequest EXCEPT !.httpMethod = "POST", !.body = b] :
        b \in {"unparseable", "null"} }

OptionsRequest == [NoRequest EXCEPT !.httpMethod = "OPTIONS"]

\* A finalReportText: a string is the sequence of its characters, a run of
\* characters that need no escaping in JSON being kept as one element.
ReportA == JSString(<<"report a">>)

\* Ratings paired with a missing or empty finalReportText.
FewRatings ==
    { NoRatings,
      [kind |-> "object", map |-> << >>],
      [kind |-> "object", map |-> [x \in Sections |-> JSNumber(9)]],
      [kind |-> "object", map |-> [x \in Sections |-> JSNumber(8)]] }

CollectorRequests ==
    {OptionsRequest} \cup BrokenRequests
      \cup { PostBody(t, r) : t \in {JSUndefined, JSString(<<>>)},
                               r \in FewRatings }
      \cup { PostBody(ReportA, r) : r \in RatingInputs }

\* !x of JavaScript.
Falsy(x) ==
    \/ x.t \in {"undefined", "null"}
    \/ x.t = "string" /\ x.s = <<>>
    \/ x.t \in {"number", "boolean"} /\ x.n = 0

RatingsFalsy(r) == r.kind \in {"undefined", "null"}

\* Lines 30-83: what the handler decides before its first await.
Validate_BelowIs400(event) ==
    IF event.httpMethod = "OPTIONS" THEN "options"
    ELSE IF event.body # "json" THEN "parseError"
    ELSE IF Falsy(event.finalReportText) \/ RatingsFalsy(event.ratings)
         THEN "missing"
    ELSE IF DOMAIN event.ratings.map = {} THEN "noSections"
    ELSE IF ~AllAboveNine(event.ratings.map) THEN "missing"
    ELSE "insert"

Validate(event) ==
    IF event.httpMethod = "OPTIONS" THEN "options"
    ELSE IF event.body # "json" THEN "parseError"
    ELSE IF Falsy(event.finalReportText) \/ RatingsFalsy(event.ratings)
         THEN "missing"
    ELSE IF DOMAIN event.ratings.map = {} THEN "noSections"
    ELSE IF ~AllAboveNine(event.ratings.map) THEN "notStored"
    ELSE "insert"

\* insertPayload, lines 90-96.
InsertPayload(event) ==
    [report_json |-> [text |-> event.finalReportText,
                      ratings |-> event.ratings.map,
                      metadata |-> event.metadata]]

\* The `headers` object each handler builds first (part_000 lines 23-27 and
\* the same lines of the other three); check-finetune-status also allows GET.
NoHeaders == [origin |-> "none", allowHeaders |-> "none", allowMethods |-> "none"]

CorsHeaders(fn) ==
    [origin |-> "*", allowHeaders |-> "Content-Type",
     allowMethods |-> IF fn = "check-finetune-status"
                      THEN "POST, GET, OPTIONS" ELSE "POST, OPTIONS"]

IdleCollector ==
    [fn |-> "store-training-data", pc |-> "idle", req |-> NoRequest,
     acc |-> 0, ins |-> "none", count |-> -1, trig |-> FALSE, ftStatus |-> 0,
     statusCode |-> 0, headers |-> NoHeaders, body |-> "none"]

IdleLauncher ==
    [fn |-> "fine-tune", pc |-> "idle", method |-> "none", caller |-> "none",
     jsonlContent |-> << >>, tempFile |-> "none", fileId |-> 0,
     fineTuneId |-> Absent, failed |-> FALSE,
     statusCode |-> 0, headers |-> NoHeaders, body |-> "none"]

\* A response of a handler, { statusCode, headers, body }: the invocation is
\* over once it is delivered.  The body "" is the empty string of the OPTIONS
\* answers; every other body stands for a JSON.stringify({...}) text.
Respond_BareError(rec, code, body) ==
    [rec EXCEPT !.pc = "done", !.statusCode = code, !.body = body,
                !.headers = IF code >= 500 THEN NoHeaders
                            ELSE CorsHeaders(rec.fn)]

Respond(rec, code, body) ==
    [rec EXCEPT !.pc = "done", !.statusCode = code, !.body = body,
                !.headers = CorsHeaders(rec.fn)]

----------------------------------------------------------------------------
(* fine-tune (src/netlify/functions/fine-tune.js) *)

\* One .jsonl line, lines 74-92: r.report_json?.text || '' as the assistant's
\* content after the two fixed instructions.
TrainingExample(r) ==
    [messages |->
        << [role |-> "system", content |-> JSString(<<SystemInstruction>>)],
           [role |-> "user", content |-> JSString(<<UserInstruction>>)],
           [role |-> "assistant",
            content |-> IF Falsy(r.report_json.text) THEN JSString(<<>>)
                        ELSE r.report_json.text] >>]

\* JSON.stringify of line 76.  The text it returns is a sequence of
\* characters and of runs of plain characters; inside a string literal a
\* quotation mark, a backslash and a newline are escaped.
Quote == "\""
Backslash == "\\"
Newline == "\n"

Escaped_Raw(cs) == cs

RECURSIVE Escaped(_)
Escaped(cs) ==
    IF cs = <<>> THEN <<>>
    ELSE LET c == Head(cs)
         IN  (CASE c = Quote -> <<Backslash, Quote>>
                [] c = Backslash -> <<Backslash, Backslash>>
                [] c = Newline -> <<Backslash, "n">>
                [] OTHER -> <<c>>) \o Escaped(Tail(cs))

JsonString(cs) == <<Quote>> \o Escaped(cs) \o <<Quote>>

JsonMessage(m) ==
    <<"{\"role\":">> \o JsonString(<<m.role>>)
        \o <<",\"content\":">> \o JsonString(m.content.s) \o <<"}">>

Stringify(example) ==
    <<"{\"messages\":[">> \o JsonMessage(example.messages[1])
        \o <<",">> \o JsonMessage(example.messages[2])
        \o <<",">> \o JsonMessage(example.messages[3]) \o <<"]}">>

\* lines.join('\n'), line 93.
RECURSIVE Join(_)
Join(lines) ==
    IF lines = <<>> THEN <<>>
    ELSE IF Len(lines) = 1 THEN lines[1]
    ELSE lines[1] \o <<Newline>> \o Join(Tail(lines))

\* jsonlContent, lines 74-93: one line per row, in the order of the rows.
JsonlContent_NewestFirst(rows) ==
    Join([i \in 1..Len(rows) |->
             Stringify(TrainingExample(rows[Len(rows) + 1 - i]))])

JsonlContent(rows) ==
    Join([i \in 1..Len(rows) |-> Stringify(TrainingExample(rows[i]))])

NewJob(fileId) ==
    [status |-> "validating_files", fine_tuned_model |-> "",
     model |-> BaseModel, training_file |-> fileId]

\* A slot takes a request when no invocation is using it.
Free(rec) == rec.pc \in {"idle", "done"}

\* A fine-tune slot is in use until its caller has the response.
LauncherFree(rec) ==
    \/ rec.pc = "idle"
    \/ rec.pc = "done" /\ rec.caller \in {"external", "answered"}

\* Line 65: !rows || rows.length === 0.
NothingToDo_Never(rows) == FALSE

NothingToDo(rows) == Len(rows) = 0

\* Lines 37-51: a request from outside arrives; OPTIONS is answered at once.
FineTune_Request(l, method) ==
    /\ LauncherFree(launcher[l])
    /\ calls < MaxCalls
    /\ calls' = calls + 1
    /\ launcher' = [launcher EXCEPT ![l] =
          IF method = "OPTIONS"
          THEN Respond([IdleLauncher EXCEPT !.caller = "external",
                                            !.method = method], 200, "")
          ELSE [IdleLauncher EXCEPT !.pc = "fetch", !.caller = "external",
                                    !.method = method]]
    /\ UNCHANGED <<training_data, settings, jobs, files,
                   collector, poller, generator>>

\* Lines 54-97: read the rows oldest first, build the lines, write the
\* temporary file.
FineTune_Fetch(l, outcome) ==
    /\ launcher[l].pc = "fetch"
    /\ launcher' = [launcher EXCEPT ![l] =
          IF outcome # "ok"
          THEN Respond([@ EXCEPT !.failed = TRUE], 500, "error")
          ELSE IF NothingToDo(training_data) THEN Respond(@, 200, "nothing")
          ELSE [@ EXCEPT !.pc = "upload", !.tempFile = "onDisk",
                         !.jsonlContent = JsonlContent(training_data)]]
    /\ UNCHANGED <<training_data, settings, jobs, files,
                   collector, poller, generator, calls>>

\* Lines 99-105: openai.files.create.
FineTune_Upload(l, outcome) ==
    /\ launcher[l].pc = "upload"
    /\ IF outcome = "ok"
       THEN /\ files' = Append(files, launcher[l].jsonlContent)
            /\ launcher' = [launcher EXCEPT ![l] =
                  [@ EXCEPT !.pc = "create", !.fileId = Len(files) + 1]]
       ELSE /\ launcher' = [launcher EXCEPT ![l] =
                  Respond([@ EXCEPT !.failed = TRUE], 500, "error")]
            /\ UNCHANGED files
    /\ UNCHANGED <<training_data, settings, jobs,
                   collector, poller, generator, calls>>

\* Lines 107-115: openai.fineTuning.jobs.create.
FineTune_Create(l, outcome) ==
    /\ launcher[l].pc = "create"
    /\ IF outcome = "ok"
       THEN /\ jobs' = Append(jobs, NewJob(launcher[l].fileId))
            /\ launcher' = [launcher EXCEPT ![l] =
                  [@ EXCEPT !.pc = "storeJobId",
                            !.fineTuneId = JobIds[Len(jobs) + 1]]]
       ELSE /\ launcher' = [launcher EXCEPT ![l] =
                  Respond([@ EXCEPT !.failed = TRUE], 500, "error")]
            /\ UNCHANGED jobs
    /\ UNCHANGED <<training_data, settings, files,
                   collector, poller, generator, calls>>

\* The row written by lines 119-124: key 'current_finetune_job_id', its own
\* key so that active_finetuned_model is not overwritten.
UpsertJobId_ActiveKey(s, fineTuneId) ==
    [s EXCEPT !.active_finetuned_model = fineTuneId]

UpsertJobId_KeepRecorded(s, fineTuneId) ==
    IF s.current_finetune_job_id = Absent
    THEN [s EXCEPT !.current_finetune_job_id = fineTuneId]
    ELSE s

UpsertJobId(s, fineTuneId) ==
    [s EXCEPT !.current_finetune_job_id = fineTuneId]

\* Lines 119-128: upsert current_finetune_job_id; an { error } is only logged.
FineTune_StoreJobId(l, outcome) ==
    /\ launcher[l].pc = "storeJobId"
    /\ settings' = IF outcome = "ok"
                   THEN UpsertJobId(settings, launcher[l].fineTuneId)
                   ELSE settings
    /\ launcher' = [launcher EXCEPT ![l] =
          IF outcome = "throw"
          THEN Respond([@ EXCEPT !.failed = TRUE], 500, "error")
          ELSE [@ EXCEPT !.pc = "storeFlag", !.failed = (outcome # "ok")]]
    /\ UNCHANGED <<training_data, jobs, files,
                   collector, poller, generator, calls>>

\* Lines 131-153: upsert finetune_in_progress (its result is not looked
\* at), unlink the temporary file (a failure is only warned about), answer.
FineTune_StoreFlag(l, outcome, unlinked) ==
    /\ launcher[l].pc = "storeFlag"
    /\ settings' = IF outcome = "ok"
                   THEN [settings EXCEPT !.finetune_in_progress = "true"]
                   ELSE settings
    /\ launcher' = [launcher EXCEPT ![l] =
          IF outcome = "throw"
          THEN Respond([@ EXCEPT !.failed = TRUE], 500, "error")
          ELSE Respond([@ EXCEPT !.tempFile = IF unlinked THEN "unlinked"
                                              ELSE "onDisk",
                                 !.failed = (@ \/ outcome # "ok")],
                       200, "started")]
    /\ UNCHANGED <<training_data, jobs, files,
                   collector, poller, generator, calls>>

----------------------------------------------------------------------------
(* store-training-data (src/unnamed/part_000) *)

\* Lines 103-105: if (insertError) throw insertError; a rejection of the
\* insert reaches the same catch block.
InsertFailed_OnlyRejection(outcome) == outcome = "throw"

InsertFailed(outcome) == outcome # "ok"

\* Lines 112-115: if (countError) throw countError; likewise.
CountFailed_OnlyRejection(outcome) == outcome = "throw"

CountFailed(outcome) == outcome # "ok"

\* Lines 22-105: OPTIONS, JSON.parse, the two 400 checks and the rating test
\* run without an await; a report with all ratings >= 9 is inserted, and an
\* { error } of the insert is thrown on.
StoreTrainingData_Request(c, event, outcome) ==
    /\ Free(collector[c])
    /\ calls < MaxCalls
    /\ calls' = calls + 1
    /\ LET v == Validate(event)
           rec == [IdleCollector EXCEPT !.req = event]
       IN  /\ v # "insert" => outcome = "ok"
           /\ collector' = [collector EXCEPT ![c] =
                CASE v = "options" -> Respond(rec, 200, "")
                  [] v = "parseError" -> Respond(rec, 500, "error")
                  [] v = "missing" -> Respond(rec, 400, "missing")
                  [] v = "noSections" -> Respond(rec, 400, "noSections")
                  [] v = "notStored" -> Respond(rec, 200, "notStored")
                  [] v = "insert" ->
                       IF ~InsertFailed(outcome)
                       THEN [rec EXCEPT !.pc = "count", !.acc = 1,
                                        !.ins = IF outcome = "ok" THEN "ok"
                                                ELSE "failed"]
                       ELSE Respond([rec EXCEPT !.ins = "failed", !.acc = 1],
                                    500, "error")]
           /\ training_data' =
                IF v = "insert" /\ outcome = "ok"
                THEN Append(training_data, InsertPayload(event))
                ELSE training_data
    /\ UNCHANGED <<settings, jobs, files, launcher, poller, generator>>

\* Lines 107-118 and 137-144: count the rows; without a trigger the stored
\* answer follows at once.
StoreTrainingData_Count(c, outcome) ==
    /\ collector[c].pc = "count"
    /\ collector' = [collector EXCEPT ![c] =
          LET count == IF outcome = "ok" THEN Len(training_data) ELSE -1
          IN  IF CountFailed(outcome)
              THEN Respond([@ EXCEPT !.acc = @ + 1], 500, "error")
              ELSE IF ShouldTrigger(count)
              THEN [@ EXCEPT !.pc = "trigger", !.acc = @ + 1,
                             !.count = count]
              ELSE Respond([@ EXCEPT !.acc = @ + 1, !.count = count],
                           200, "stored")]
    /\ UNCHANGED <<training_data, settings, jobs, files,
                   launcher, poller, generator, calls>>

\* Lines 123-129: axios.post reaches the fine-tune function, which starts
\* to run (it has no await before its row fetch).
StoreTrainingData_Trigger(c, l) ==
    /\ collector[c].pc = "trigger"
    /\ LauncherFree(launcher[l])
    /\ collector' = [collector EXCEPT ![c] =
          [@ EXCEPT !.pc = "awaitFineTune", !.trig = TRUE]]
    /\ launcher' = [launcher EXCEPT ![l] =
          [IdleLauncher EXCEPT !.pc = "fetch", !.caller = c,
                               !.method = "POST"]]
    /\ UNCHANGED <<training_data, settings, jobs, files,
                   poller, generator, calls>>

\* What the handler answers once axios.post has settled (lines 130-144):
\* a rejection is caught and logged.
AfterFineTune_Propagate(rec, code) ==
    IF code = 200 THEN Respond(rec, 200, "stored")
    ELSE Respond(rec, 500, "error")

AfterFineTune(rec, code) == Respond(rec, 200, "stored")

\* Lines 123-144: axios.post fails before the function is reached.
StoreTrainingData_TriggerLost(c) ==
    /\ collector[c].pc = "trigger"
    /\ collector' = [collector EXCEPT ![c] =
          AfterFineTune([@ EXCEPT !.trig = TRUE, !.ftStatus = -1], -1)]
    /\ UNCHANGED <<training_data, settings, jobs, files,
                   launcher, poller, generator, calls>>

\* Lines 130-144: the fine-tune function answered: a 2xx is logged, anything
\* else makes axios.post reject.
StoreTrainingData_FineTuneAnswered(c, l) ==
    /\ collector[c].pc = "awaitFineTune"
    /\ launcher[l].pc = "done"
    /\ launcher[l].caller = c
    /\ collector' = [collector EXCEPT ![c] =
          AfterFineTune([@ EXCEPT !.ftStatus = launcher[l].statusCode],
                        launcher[l].statusCode)]
    /\ launcher' = [launcher EXCEPT ![l] = [@ EXCEPT !.caller = "answered"]]
    /\ UNCHANGED <<training_data, settings, jobs, files,
                   poller, generator, calls>>

----------------------------------------------------------------------------
(* check-finetune-status (src/netlify/functions/check-finetune-status.js) *)

IdlePoller ==
    [fn |-> "check-finetune-status", pc |-> "idle", method |-> "none",
     read |-> "none", jobId |-> Absent, query |-> "none", status |-> "none",
     newModelName |-> "", writes |-> 0, wfail |-> FALSE, statusCode |-> 0,
     headers |-> NoHeaders, body |-> "none"]

JobStatuses ==
    {"validating_files", "queued", "running", "succeeded", "failed",
     "cancelled"}

StatusRank(status) ==
    CASE status = "validating_files" -> 0
      [] status = "queued" -> 1
      [] status = "running" -> 2
      [] OTHER -> 3

\* The provider's side: what a job last seen as `job` can be by now.  A
\* finished job stays as it is; a succeeded job normally names its model.
Later(job, j) ==
    {job} \cup
    { [job EXCEPT !.status = st,
                  !.fine_tuned_model = IF st = "succeeded" /\ named
                                       THEN ModelNames[j] ELSE ""] :
        st \in {x \in JobStatuses : StatusRank(x) > StatusRank(job.status)},
        named \in BOOLEAN }

\* Lines 71, 77, 111, 134: where the handler goes with a retrieved job.
StatusBranch_ClearRunning(status, newModelName) ==
    IF status = "succeeded"
    THEN (IF newModelName # "" THEN "upsertModel" ELSE "deleteJob")
    ELSE IF status \in {"failed", "running"} THEN "deleteJob"
    ELSE "report"

StatusBranch_ReportFailed(status, newModelName) ==
    IF status = "succeeded"
    THEN (IF newModelName # "" THEN "upsertModel" ELSE "deleteJob")
    ELSE "report"

StatusBranch_PromoteUnnamed(status, newModelName) ==
    IF status = "succeeded" THEN "upsertModel"
    ELSE IF status = "failed" THEN "deleteJob"
    ELSE "report"

StatusBranch(status, newModelName) ==
    IF status = "succeeded"
    THEN (IF newModelName # "" THEN "upsertModel" ELSE "deleteJob")
    ELSE IF status = "failed" THEN "deleteJob"
    ELSE "report"

\* Lines 42-63: what the handler does with the answer of the read: an
\* { error } (or a rejection, caught at 145) is a 500, no row is "no job".
JobRowAnswer_ErrorIsNoJob(outcome, jobRow) ==
    IF outcome # "ok" \/ jobRow = Absent THEN "noJob" ELSE "retrieve"

JobRowAnswer_NoJobIsError(outcome, jobRow) ==
    IF outcome # "ok" \/ jobRow = Absent THEN "error" ELSE "retrieve"

JobRowAnswer(outcome, jobRow) ==
    IF outcome # "ok" THEN "error"
    ELSE IF jobRow = Absent THEN "noJob"
    ELSE "retrieve"

\* Lines 18-66: OPTIONS is answered at once; otherwise read
\* current_finetune_job_id with maybeSingle().
CheckStatus_Request(p, method, outcome) ==
    /\ Free(poller[p])
    /\ method = "OPTIONS" => outcome = "ok"
    /\ calls < MaxCalls
    /\ calls' = calls + 1
    /\ poller' = [poller EXCEPT ![p] =
          LET rec == [IdlePoller EXCEPT !.method = method]
              asked == [rec EXCEPT !.read = outcome]
              next == JobRowAnswer(outcome, settings.current_finetune_job_id)
          IN  IF method = "OPTIONS" THEN Respond(rec, 200, "")
              ELSE IF next = "error" THEN Respond(asked, 500, "error")
              ELSE IF next = "noJob" THEN Respond(asked, 200, "noJob")
              ELSE [asked EXCEPT !.pc = "retrieve",
                       !.jobId = settings.current_finetune_job_id]]
    /\ UNCHANGED <<training_data, settings, jobs, files,
                   collector, launcher, generator>>

\* Lines 67-75 and 134-144: openai.fineTuning.jobs.retrieve, then the branch
\* on the status; a status that is neither succeeded nor failed is reported.
CheckStatus_Retrieve(p, outcome, jobInfo) ==
    /\ poller[p].pc = "retrieve"
    /\ LET j == JobIndex(poller[p].jobId)
       IN  IF outcome # "ok"
           THEN /\ jobInfo = jobs[j]
                /\ poller' = [poller EXCEPT ![p] =
                     Respond([@ EXCEPT !.query = outcome], 500, "error")]
                /\ UNCHANGED jobs
           ELSE /\ jobInfo \in Later(jobs[j], j)
                /\ jobs' = [jobs EXCEPT ![j] = jobInfo]
                /\ poller' = [poller EXCEPT ![p] =
                     LET seen == [@ EXCEPT !.query = outcome,
                                     !.status = jobInfo.status,
                                     !.newModelName =
                                         jobInfo.fine_tuned_model]
                         next == StatusBranch(jobInfo.status,
                                              jobInfo.fine_tuned_model)
                     IN  IF next = "report"
                         THEN Respond(seen, 200, "stillInProgress")
                         ELSE [seen EXCEPT !.pc = next]]
    /\ UNCHANGED <<training_data, settings, files,
                   collector, launcher, generator, calls>>

\* The record of a store write: a failure of any kind is remembered.
Wrote(rec, outcome) ==
    [rec EXCEPT !.writes = @ + 1, !.wfail = (@ \/ outcome # "ok")]

\* Lines 78-88: upsert active_finetuned_model; an { error } is only logged.
CheckStatus_UpsertModel(p, outcome) ==
    /\ poller[p].pc = "upsertModel"
    /\ settings' = IF outcome = "ok"
                   THEN [settings EXCEPT !.active_finetuned_model =
                                              poller[p].newModelName]
                   ELSE settings
    /\ poller' = [poller EXCEPT ![p] =
          IF outcome = "throw" THEN Respond(Wrote(@, outcome), 500, "error")
          ELSE [Wrote(@, outcome) EXCEPT !.pc = "deleteJob"]]
    /\ UNCHANGED <<training_data, jobs, files,
                   collector, launcher, generator, calls>>

\* Lines 91-94 and 114-117: delete current_finetune_job_id; the result is
\* not looked at.
CheckStatus_DeleteJob(p, outcome) ==
    /\ poller[p].pc = "deleteJob"
    /\ settings' = IF outcome = "ok"
                   THEN [settings EXCEPT !.current_finetune_job_id = Absent]
                   ELSE settings
    /\ poller' = [poller EXCEPT ![p] =
          IF outcome = "throw" THEN Respond(Wrote(@, outcome), 500, "error")
          ELSE [Wrote(@, outcome) EXCEPT !.pc = "setFlag"]]
    /\ UNCHANGED <<training_data, jobs, files,
                   collector, launcher, generator, calls>>

\* Lines 96-110 and 119-133: upsert finetune_in_progress = 'false' (result
\* not looked at) and answer 200 with the status.
CheckStatus_SetFlag(p, outcome) ==
    /\ poller[p].pc = "setFlag"
    /\ settings' = IF outcome = "ok"
                   THEN [settings EXCEPT !.finetune_in_progress = "false"]
                   ELSE settings
    /\ poller' = [poller EXCEPT ![p] =
          IF outcome = "throw" THEN Respond(Wrote(@, outcome), 500, "error")
          ELSE Respond(Wrote(@, outcome), 200, poller[p].status)]
    /\ UNCHANGED <<training_data, jobs, files,
                   collector, launcher, generator, calls>>

----------------------------------------------------------------------------
(* generate-report (src/netlify/functions/generate-report.js) *)

IdleGenerator ==
    [fn |-> "generate-report", pc |-> "idle", method |-> "none",
     read |-> "none", raw |-> Absent, model |-> "none",
     inference |-> "none", statusCode |-> 0, headers |-> NoHeaders,
     body |-> "none"]

\* getActiveModel, lines 496-513: an { error }, a rejection and a missing or
\* empty value all give null.
GetActiveModel_Surface(outcome, raw) ==
    IF outcome # "ok" THEN "<error>"
    ELSE IF raw \in {Absent, ""} THEN "<null>" ELSE raw

GetActiveModel(outcome, raw) ==
    IF outcome # "ok" THEN "<null>"
    ELSE IF raw \in {Absent, ""} THEN "<null>" ELSE raw

\* Lines 549-553: the fallback when getActiveModel gave null.
ActiveModelOrDefault(activeModel) ==
    IF activeModel = "<null>" THEN DefaultModel ELSE activeModel

\* Lines 515-553: OPTIONS; JSON.parse of the body, the weather lookup (which
\* catches its own failures) and the prompt touch no store; then
\* active_finetuned_model is read and the default stands in for null.
GenerateReport_Request(g, method, parses, outcome) ==
    /\ Free(generator[g])
    /\ method = "OPTIONS" \/ ~parses => outcome = "ok"
    /\ method = "OPTIONS" => parses
    /\ calls < MaxCalls
    /\ calls' = calls + 1
    /\ LET activeModel ==
               GetActiveModel(outcome, settings.active_finetuned_model)
           rec == [IdleGenerator EXCEPT !.method = method]
       IN  generator' = [generator EXCEPT ![g] =
             IF method = "OPTIONS" THEN Respond(rec, 200, "")
             ELSE IF ~parses THEN Respond(rec, 500, "error")
             ELSE IF activeModel = "<error>"
             THEN Respond([rec EXCEPT !.read = outcome], 500, "error")
             ELSE [rec EXCEPT
                      !.pc = "complete", !.read = outcome,
                      !.raw = IF outcome = "ok"
                              THEN settings.active_finetuned_model
                              ELSE Absent,
                      !.model = ActiveModelOrDefault(activeModel)]]
    /\ UNCHANGED <<training_data, settings, jobs, files,
                   collector, launcher, poller>>

\* Lines 555-588: openai.chat.completions.create with the resolved model.
GenerateReport_Complete(g, outcome) ==
    /\ generator[g].pc = "complete"
    /\ generator' = [generator EXCEPT ![g] =
          IF outcome = "ok"
          THEN Respond([@ EXCEPT !.inference = outcome], 200, "section")
          ELSE Respond([@ EXCEPT !.inference = outcome], 500, "error")]
    /\ UNCHANGED <<training_data, settings, jobs, files,
                   collector, launcher, poller, calls>>

----------------------------------------------------------------------------
(* Initial states and specifications *)

SeedRow == InsertPayload(PostBody(JSString(<<"earlier report">>),
              [kind |-> "object",
               map |-> [x \in {"introduction"} |-> JSNumber(9)]]))

Rows(n) == [i \in 1..n |-> SeedRow]

FreshSettings ==
    [active_finetuned_model |-> Absent, current_finetune_job_id |-> Absent,
     finetune_in_progress |-> Absent]

\* The system with n rows stored: before any launch, with its first job in
\* progress, and with that job promoted.
Deployed(n, phase) ==
    /\ training_data = Rows(n)
    /\ IF phase = "fresh"
       THEN /\ settings = FreshSettings
            /\ jobs = << >>
            /\ files = << >>
       ELSE /\ files = << JsonlContent(Rows(n)) >>
            /\ IF phase = "launched"
               THEN /\ jobs = << NewJob(1) >>
                    /\ settings =
                          [FreshSettings EXCEPT
                             !.current_finetune_job_id = JobIds[1],
                             !.finetune_in_progress = "true"]
               ELSE /\ jobs = << [NewJob(1) EXCEPT
                                    !.status = "succeeded",
                                    !.fine_tuned_model = ModelNames[1]] >>
                    /\ settings =
                          [FreshSettings EXCEPT
                             !.active_finetuned_model = ModelNames[1],
                             !.finetune_in_progress = "false"]

Idle ==
    /\ collector = [c \in Collectors |-> IdleCollector]
    /\ launcher = [l \in Launchers |-> IdleLauncher]
    /\ poller = [p \in Pollers |-> IdlePoller]
    /\ generator = [g \in Generators |-> IdleGenerator]
    /\ calls = 0

Init ==
    /\ \E n \in {0, 4} : Deployed(n, "fresh")
       \/ \E phase \in {"launched", "promoted"} : Deployed(4, phase)
    /\ Idle

CollectInit ==
    /\ \E n \in {0, 4, 9} : Deployed(n, "fresh")
    /\ Idle

Methods == {"POST", "OPTIONS"}

CollectorNext(c, requests) ==
    \/ \E event \in requests, outcome \in StoreOutcomes :
          StoreTrainingData_Request(c, event, outcome)
    \/ \E outcome \in StoreOutcomes : StoreTrainingData_Count(c, outcome)
    \/ StoreTrainingData_Trigger(c, "l1")
    \/ StoreTrainingData_TriggerLost(c)
    \/ StoreTrainingData_FineTuneAnswered(c, "l1")

LauncherSteps(l) ==
    \/ \E outcome \in StoreOutcomes : FineTune_Fetch(l, outcome)
    \/ \E outcome \in ApiOutcomes : FineTune_Upload(l, outcome)
    \/ \E outcome \in ApiOutcomes : FineTune_Create(l, outcome)
    \/ \E outcome \in StoreOutcomes : FineTune_StoreJobId(l, outcome)
    \/ \E outcome \in StoreOutcomes, unlinked \in BOOLEAN :
          /\ outcome = "throw" => unlinked
          /\ FineTune_StoreFlag(l, outcome, unlinked)

LauncherNext(l) ==
    \/ \E method \in Methods : FineTune_Request(l, method)
    \/ LauncherSteps(l)

AllJobInfos ==
    UNION { Later(NewJob(f), j) : f \in 1..(MaxCalls + 2),
                                  j \in 1..Len(JobIds) }

PollerNext(p) ==
    \/ \E method \in Methods, outcome \in StoreOutcomes :
          CheckStatus_Request(p, method, outcome)
    \/ \E outcome \in ApiOutcomes, jobInfo \in AllJobInfos :
          CheckStatus_Retrieve(p, outcome, jobInfo)
    \/ \E outcome \in StoreOutcomes : CheckStatus_UpsertModel(p, outcome)
    \/ \E outcome \in StoreOutcomes : CheckStatus_DeleteJob(p, outcome)
    \/ \E outcome \in StoreOutcomes : CheckStatus_SetFlag(p, outcome)

GeneratorNext(g) ==
    \/ \E method \in Methods, parses \in BOOLEAN, outcome \in StoreOutcomes :
          GenerateReport_Request(g, method, parses, outcome)
    \/ \E outcome \in ApiOutcomes : GenerateReport_Complete(g, outcome)

\* A few requests of each kind, for the runs that interleave all handlers.
SomeRequests ==
    { OptionsRequest,
      PostBody(ReportA, [kind |-> "object",
          map |-> [x \in Sections |-> JSNumber(9)]]),
      PostBody(ReportA, [kind |-> "object",
          map |-> [x \in {"introduction"} |-> JSNumber(8)]]),
      PostBody(JSString(<<>>), NoRatings) }

Next ==
    \/ CollectorNext("c1", SomeRequests)
    \/ LauncherNext("l1")
    \/ PollerNext("p1")
    \/ GeneratorNext("g1")

Spec == Init /\ [][Next]_vars

\* store-training-data alone, over every request, with the fine-tune
\* function it triggers.
CollectNext ==
    \/ CollectorNext("c1", CollectorRequests)
    \/ LauncherSteps("l1")

CollectSpec == CollectInit /\ [][CollectNext]_vars

\* fine-tune alone, over rows whose texts hold the characters that JSON
\* escapes.
MaxTextLen == 2

Alphabet == {"a", "n", Quote, Backslash, Newline}

Texts == UNION { [1..k -> Alphabet] : k \in 1..MaxTextLen }

TextRow(cs) ==
    InsertPayload(PostBody(JSString(cs),
        [kind |-> "object", map |-> [x \in Sections |-> JSNumber(9)]]))

JsonlInit ==
    /\ \E cs \in Texts :
          training_data \in { <<TextRow(cs), SeedRow>>,
                              <<SeedRow, TextRow(cs)>> }
    /\ settings = FreshSettings
    /\ jobs = << >>
    /\ files = << >>
    /\ Idle

JsonlNext == LauncherNext("l1")

JsonlSpec == JsonlInit /\ [][JsonlNext]_vars

\* fine-tune invoked twice at once, with check-finetune-status polling.
OverlapInit ==
    /\ \E phase \in {"fresh", "launched"} : Deployed(4, phase)
    /\ Idle

OverlapNext ==
    \/ LauncherNext("l1")
    \/ LauncherNext("l2")
    \/ PollerNext("p1")

OverlapSpec == OverlapInit /\ [][OverlapNext]_vars

\* Two submissions at once near a batch boundary.  Every axios.post of a
\* submission starts an invocation of fine-tune of its own.
LauncherOf(c) == IF c = "c1" THEN "l1" ELSE "l2"

RaceRequests ==
    { PostBody(ReportA, [kind |-> "object",
          map |-> [x \in Sections |-> JSNumber(9)]]),
      PostBody(ReportA, [kind |-> "object",
          map |-> [x \in Sections |-> JSNumber(10)]]) }

RaceInit ==
    /\ \E n \in {3, 4} : Deployed(n, "fresh")
    /\ Idle

RaceNext ==
    \E c \in Collectors :
       \/ \E event \in RaceRequests, outcome \in StoreOutcomes :
             StoreTrainingData_Request(c, event, outcome)
       \/ \E outcome \in StoreOutcomes : StoreTrainingData_Count(c, outcome)
       \/ StoreTrainingData_Trigger(c, LauncherOf(c))
       \/ StoreTrainingData_TriggerLost(c)
       \/ StoreTrainingData_FineTuneAnswered(c, LauncherOf(c))
       \/ LauncherSteps(LauncherOf(c))

RaceSpec == RaceInit /\ [][RaceNext]_vars

\* The lifecycle of one recorded job: the provider moves the job on by
\* itself, check-finetune-status is invoked again and again, every store and
\* provider call succeeds, and fine-tune is not invoked.
Job_Advance(j) ==
    /\ j \in 1..Len(jobs)
    /\ \E jobInfo \in Later(jobs[j], j) \ {jobs[j]} :
          /\ StatusRank(jobInfo.status) <= StatusRank(jobs[j].status) + 1
          /\ jobs' = [jobs EXCEPT ![j] = jobInfo]
    /\ UNCHANGED <<training_data, settings, files, collector, launcher,
                   poller, generator, calls>>

LivePoll(p) ==
    \/ CheckStatus_Request(p, "POST", "ok")
    \/ /\ poller[p].pc = "retrieve"
       /\ CheckStatus_Retrieve(p, "ok", jobs[JobIndex(poller[p].jobId)])
    \/ CheckStatus_UpsertModel(p, "ok")
    \/ CheckStatus_DeleteJob(p, "ok")
    \/ CheckStatus_SetFlag(p, "ok")

LiveInit ==
    /\ \E n \in {4, 9} : Deployed(n, "launched")
    /\ Idle

LiveNext ==
    \/ Job_Advance(1)
    \/ LivePoll("p1")

LiveSpec == LiveInit /\ [][LiveNext]_vars /\ WF_vars(LivePoll("p1"))

----------------------------------------------------------------------------
(* Properties *)

\* The values of RatingValues that are numbers >= 9 once coerced: the number
\* 9 and the string "10".
AtLeastNine == {JSNumber(9), JSString(<<"1", "0">>)}

\* A POST whose body is a JSON object.
JsonPost(event) == event.httpMethod = "POST" /\ event.body = "json"

HasText(event) ==
    event.finalReportText \notin {JSUndefined, JSString(<<>>)}

HasSections(event) ==
    event.ratings.kind = "object" /\ DOMAIN event.ratings.map # {}

Qualifies(event) ==
    /\ HasSections(event)
    /\ \A x \in DOMAIN event.ratings.map : event.ratings.map[x] \in AtLeastNine

\* The Sample of a submission.
SampleOf(event) ==
    [report_json |-> [text |-> event.finalReportText,
                      ratings |-> event.ratings.map,
                      metadata |-> event.metadata]]

\* C1: a submission with a non-empty finalReportText issues the insert of
\* exactly one Sample built from it if and only if its ratings mapping is
\* non-empty and every rating is a number >= 9 after coercion; the insert
\* appends that one row, or fails and appends nothing; any other submission
\* issues no insert, and no other step changes the stored Samples.
C1_InsertsIffAllRatingsAtLeastNine ==
    [][IF calls' = calls + 1
       THEN \A c \in Collectors :
              LET rec == collector'[c]
              IN  Free(collector[c]) /\ JsonPost(rec.req) /\ HasText(rec.req)
                  => IF Qualifies(rec.req)
                     THEN /\ rec.acc = 1
                          /\ rec.ins \in {"ok", "failed"}
                          /\ rec.ins = "ok" =>
                               training_data' =
                                   Append(training_data, SampleOf(rec.req))
                          /\ rec.ins = "failed" =>
                               training_data' = training_data
                     ELSE /\ rec.ins = "none"
                          /\ rec.acc = 0
                          /\ training_data' = training_data
       ELSE training_data' = training_data]_vars

\* C1 witness: a submission rating one section "10" and the other 9 has been
\* inserted as the newest row.
C1_Witness ==
    \E c \in Collectors :
        /\ collector[c].ins = "ok"
        /\ collector[c].req.ratings.map =
              [x \in Sections |-> IF x = "introduction"
                                  THEN JSString(<<"1", "0">>)
                                  ELSE JSNumber(9)]
        /\ Len(training_data) > 0
        /\ training_data[Len(training_data)] = SampleOf(collector[c].req)

\* C2: an invocation that has answered has invoked the fine-tune function
\* exactly when its insert succeeded and the row count it then read is a
\* positive multiple of five; while it waits for the fine-tune function its
\* count is such a multiple.
C2_TriggersOnPositiveMultiplesOfFive ==
    \A c \in Collectors :
        LET rec == collector[c]
            multiple == \E k \in 1..rec.count : rec.count = 5 * k
        IN  /\ rec.pc = "done" => (rec.trig <=> rec.ins = "ok" /\ multiple)
            /\ rec.pc \in {"trigger", "awaitFineTune"} =>
                  rec.ins = "ok" /\ multiple
            /\ rec.pc = "done" /\ rec.count # -1 =>
                  rec.count = Len(training_data)
            /\ rec.trig => rec.pc \in {"awaitFineTune", "done"}

\* C2 witness: the tenth row was counted and the fine-tune function invoked.
C2_Witness ==
    \E c \in Collectors :
        /\ collector[c].pc = "done"
        /\ collector[c].trig
        /\ collector[c].count = 10

\* C3: a poll that retrieves a status other than succeeded and failed writes
\* nothing to app_settings (the job stays recorded), and answers 200 with
\* the still-in-progress message.
C3_PollInProgressChangesNothing ==
    [][\A p \in Pollers :
          /\ poller[p].pc = "retrieve"
          /\ poller'[p].status \notin {"none", "succeeded", "failed"}
          => /\ poller'[p].pc = "done"
             /\ poller'[p].statusCode = 200
             /\ poller'[p].body = "stillInProgress"
             /\ poller'[p].writes = 0
             /\ settings' = settings
             /\ training_data' = training_data]_vars

\* C3 witness: a poll saw its job running and answered, the job id still
\* recorded and the flag still 'true'.
C3_Witness ==
    \E p \in Pollers :
        /\ poller[p].pc = "done"
        /\ poller[p].body = "stillInProgress"
        /\ poller[p].status = "running"
        /\ settings.current_finetune_job_id = poller[p].jobId
        /\ settings.finetune_in_progress = "true"

\* C4 as stated: once a poll has observed succeeded with a non-empty model
\* name and has answered 200, active_finetuned_model is that name,
\* current_finetune_job_id is absent and finetune_in_progress is 'false'.
C4_SucceededPollPromotes ==
    \A p \in Pollers :
        /\ poller[p].pc = "done"
        /\ poller[p].statusCode = 200
        /\ poller[p].status = "succeeded"
        /\ poller[p].newModelName # ""
        => /\ settings.active_finetuned_model = poller[p].newModelName
           /\ settings.current_finetune_job_id = Absent
           /\ settings.finetune_in_progress = "false"

\* C5 as stated: once a poll has observed failed and has answered 200 with
\* the failure, current_finetune_job_id is absent and finetune_in_progress
\* is 'false'.
C5_FailedPollClears ==
    \A p \in Pollers :
        /\ poller[p].pc = "done"
        /\ poller[p].statusCode = 200
        /\ poller[p].status = "failed"
        => /\ poller[p].body = "failed"
           /\ settings.current_finetune_job_id = Absent
           /\ settings.finetune_in_progress = "false"

\* C6: the model a generation uses is the stored active_finetuned_model when
\* the read succeeds with a non-empty value and the default model otherwise;
\* a failed read never ends the request, the completion is still asked for,
\* and a completion that succeeds is answered 200.
C6_ActiveModelOrDefault ==
    [][\A g \in Generators :
          /\ generator[g].pc # "complete" /\ generator'[g].pc = "complete" =>
                generator'[g].model =
                    IF /\ generator'[g].read = "ok"
                       /\ settings.active_finetuned_model \notin {Absent, ""}
                    THEN settings.active_finetuned_model
                    ELSE "gpt-4o-2024-08-06"
          /\ generator'[g].read \in {"error", "throw"} =>
                \/ generator'[g].pc = "complete"
                \/ generator'[g].inference # "none"
          /\ generator[g].pc = "complete" /\ generator'[g].inference = "ok" =>
                generator'[g].statusCode = 200]_vars

\* C6 witness: the read of active_finetuned_model failed, the default model
\* was used and the section was generated.
C6_Witness ==
    \E g \in Generators :
        /\ generator[g].pc = "done"
        /\ generator[g].read = "error"
        /\ generator[g].model = "gpt-4o-2024-08-06"
        /\ generator[g].statusCode = 200

\* C7: active_finetuned_model changes only in the step of a poll that
\* observed succeeded and upserts the model name it retrieved; no step of
\* store-training-data, fine-tune or generate-report changes it.
C7_OnlyPollerWritesActiveModel ==
    [][settings'.active_finetuned_model # settings.active_finetuned_model =>
          /\ \E p \in Pollers :
                /\ poller[p].pc = "upsertModel"
                /\ poller[p].status = "succeeded"
                /\ poller'[p].pc = "deleteJob"
                /\ settings'.active_finetuned_model = poller[p].newModelName
          /\ UNCHANGED <<collector, launcher, generator>>]_vars

\* C7 witness: a launch has recorded its job id, and a poll then promoted
\* the model of an earlier job.
C7_Witness ==
    /\ \E l \in Launchers : launcher[l].pc \in {"storeFlag", "done"}
                            /\ launcher[l].fineTuneId # Absent
    /\ \E p \in Pollers :
          /\ poller[p].pc = "deleteJob"
          /\ poller[p].status = "succeeded"
          /\ ~poller[p].wfail
          /\ settings.active_finetuned_model = poller[p].newModelName

\* C8: a submission is answered 400 exactly when it lacks finalReportText,
\* lacks ratings, or its ratings mapping is empty, and that step reads and
\* writes no store and triggers nothing; a well-formed submission with a
\* rating below the threshold is answered 200 "not stored", likewise
\* without a store access.
C8_Rejects400 ==
    [][calls' = calls + 1 =>
          \A c \in Collectors :
             LET rec == collector'[c]
                 untouched ==
                     /\ rec.pc = "done"
                     /\ rec.acc = 0
                     /\ ~rec.trig
                     /\ UNCHANGED <<training_data, settings, jobs, files,
                                    launcher>>
             IN  Free(collector[c]) /\ JsonPost(rec.req) =>
                    /\ rec.statusCode = 400 <=>
                          \/ ~HasText(rec.req)
                          \/ rec.req.ratings.kind \in {"undefined", "null"}
                          \/ ~HasSections(rec.req)
                    /\ rec.statusCode = 400 => untouched
                    /\ HasText(rec.req) /\ HasSections(rec.req)
                         /\ ~Qualifies(rec.req) =>
                          /\ rec.statusCode = 200
                          /\ rec.body = "notStored"
                          /\ untouched]_vars

\* C8 witness: a submission with a report text and an empty ratings mapping
\* was answered 400.
C8_Witness ==
    \E c \in Collectors :
        /\ collector[c].pc = "done"
        /\ collector[c].statusCode = 400
        /\ HasText(collector[c].req)
        /\ collector[c].req.ratings.kind = "object"
        /\ DOMAIN collector[c].req.ratings.map = {}

\* C9: an invocation that invoked the fine-tune function answers 200
\* "stored" whatever became of that call, and its Sample is in the store, at
\* or before the position it counted.
C9_TriggerFailureSwallowed ==
    \A c \in Collectors :
        LET rec == collector[c]
        IN  rec.pc = "done" /\ rec.trig =>
               /\ rec.statusCode = 200
               /\ rec.body = "stored"
               /\ rec.ins = "ok"
               /\ rec.count \in 1..Len(training_data)
               /\ \E i \in 1..rec.count : training_data[i] = SampleOf(rec.req)

\* C9 witness: the fine-tune function answered 500, the submission was
\* answered 200.
C9_Witness ==
    \E c \in Collectors :
        /\ collector[c].pc = "done"
        /\ collector[c].trig
        /\ collector[c].ftStatus = 500
        /\ collector[c].statusCode = 200

\* C10 as stated: whenever the fine-tune function has answered, the
\* temporary file it wrote is removed.
C10_TempFileRemoved ==
    \A l \in Launchers :
        launcher[l].pc = "done" /\ launcher[l].tempFile # "none" =>
            launcher[l].tempFile = "unlinked"

\* C11 as stated: a fine-tune invocation in which the row fetch, the upload,
\* the job creation or one of the two app_settings writes failed answers
\* 500, never "started".
C11_LaunchFailureReported ==
    \A l \in Launchers :
        launcher[l].pc = "done" /\ launcher[l].failed =>
            launcher[l].statusCode = 500 /\ launcher[l].body # "started"

\* C12: a poll whose read of current_finetune_job_id fails, or whose status
\* query is rejected, has answered 500 without a store write, and the step
\* in which it failed leaves app_settings as it was.
C12_PollReadFailureIsHardError ==
    [][\A p \in Pollers :
          \/ poller'[p].read \in {"error", "throw"}
          \/ poller'[p].query = "throw"
          => /\ poller'[p].pc = "done"
             /\ poller'[p].statusCode = 500
             /\ poller'[p].writes = 0
             /\ poller'[p].status = "none"
             /\ poller'[p] # poller[p] => settings' = settings]_vars

\* C12 witness: the status query of a recorded job was rejected; the poll
\* answered 500 and the job is still recorded.
C12_Witness ==
    \E p \in Pollers :
        /\ poller[p].pc = "done"
        /\ poller[p].query = "throw"
        /\ poller[p].statusCode = 500
        /\ settings.current_finetune_job_id = poller[p].jobId
        /\ settings.finetune_in_progress = "true"

\* C13 as stated: whenever no fine-tune and no check-finetune-status
\* invocation is running, finetune_in_progress is 'true' exactly when
\* current_finetune_job_id is present.
C13_FlagMirrorsJobId ==
    (\A l \in Launchers : Free(launcher[l]))
        /\ (\A p \in Pollers : Free(poller[p]))
    => (settings.finetune_in_progress = "true"
            <=> settings.current_finetune_job_id # Absent)

\* Reading a .jsonl file back: its lines, and JSON.parse of a line.
RECURSIVE SplitFrom(_, _)
SplitFrom(ts, cur) ==
    IF ts = <<>> THEN <<cur>>
    ELSE IF Head(ts) = Newline THEN <<cur>> \o SplitFrom(Tail(ts), <<>>)
    ELSE SplitFrom(Tail(ts), Append(cur, Head(ts)))

SplitLines(ts) == SplitFrom(ts, <<>>)

Tok(ts, i) == IF i \in 1..Len(ts) THEN ts[i] ELSE "<end>"

NotParsed == [ok |-> FALSE, val |-> <<>>, next |-> 0]

RECURSIVE ReadChars(_, _, _)
ReadChars(ts, i, acc) ==
    IF i > Len(ts) \/ ts[i] = Newline THEN NotParsed
    ELSE IF ts[i] = Quote THEN [ok |-> TRUE, val |-> acc, next |-> i + 1]
    ELSE IF ts[i] = Backslash
    THEN (IF Tok(ts, i + 1) \in {Quote, Backslash}
          THEN ReadChars(ts, i + 2, Append(acc, ts[i + 1]))
          ELSE IF Tok(ts, i + 1) = "n"
          THEN ReadChars(ts, i + 2, Append(acc, Newline))
          ELSE NotParsed)
    ELSE ReadChars(ts, i + 1, Append(acc, ts[i]))

ReadString(ts, i) ==
    IF Tok(ts, i) = Quote THEN ReadChars(ts, i + 1, <<>>) ELSE NotParsed

ReadMessage(ts, i) ==
    LET role == IF Tok(ts, i) = "{\"role\":" THEN ReadString(ts, i + 1)
                ELSE NotParsed
        content == IF role.ok /\ Tok(ts, role.next) = ",\"content\":"
                   THEN ReadString(ts, role.next + 1)
                   ELSE NotParsed
    IN  IF content.ok /\ Tok(ts, content.next) = "}"
        THEN [ok |-> TRUE, role |-> role.val, content |-> content.val,
              next |-> content.next + 1]
        ELSE [ok |-> FALSE, role |-> <<>>, content |-> <<>>, next |-> 0]

JsonParse(ts) ==
    LET none == [ok |-> FALSE, role |-> <<>>, content |-> <<>>, next |-> 0]
        m1 == IF Tok(ts, 1) = "{\"messages\":[" THEN ReadMessage(ts, 2)
              ELSE none
        m2 == IF m1.ok /\ Tok(ts, m1.next) = ","
              THEN ReadMessage(ts, m1.next + 1) ELSE none
        m3 == IF m2.ok /\ Tok(ts, m2.next) = ","
              THEN ReadMessage(ts, m2.next + 1) ELSE none
    IN  IF m3.ok /\ Tok(ts, m3.next) = "]}" /\ m3.next = Len(ts)
        THEN [ok |-> TRUE,
              messages |-> << [role |-> m1.role, content |-> m1.content],
                              [role |-> m2.role, content |-> m2.content],
                              [role |-> m3.role, content |-> m3.content] >>]
        ELSE [ok |-> FALSE, messages |-> << >>]

\* The texts of the stored Samples, as character sequences.
SampleTexts == { training_data[i].report_json.text.s :
                    i \in 1..Len(training_data) }

\* C14: the file the fine-tune function builds has one line per Sample, and
\* each line parses back to a system, a user and an assistant message, in
\* that order, the assistant's content being exactly the text of a Sample,
\* embedded newlines, quotation marks and backslashes included.
C14_TrainingLineRoundTrips ==
    \A l \in Launchers :
        launcher[l].jsonlContent # <<>> =>
            LET ls == SplitLines(launcher[l].jsonlContent)
            IN  /\ Len(ls) = Len(training_data)
                /\ \A i \in 1..Len(ls) :
                      LET back == JsonParse(ls[i])
                      IN  /\ back.ok
                          /\ back.messages[1].role = <<"system">>
                          /\ back.messages[2].role = <<"user">>
                          /\ back.messages[3].role = <<"assistant">>
                          /\ back.messages[3].content \in SampleTexts
                /\ SampleTexts =
                      { JsonParse(ls[i]).messages[3].content :
                           i \in 1..Len(ls) }

\* C14 witness: the file was built from a Sample whose text is a newline
\* followed by a quotation mark.
C14_Witness ==
    /\ <<Newline, Quote>> \in SampleTexts
    /\ \E l \in Launchers :
          /\ launcher[l].pc = "upload"
          /\ \E i \in 1..Len(SplitLines(launcher[l].jsonlContent)) :
                JsonParse(SplitLines(launcher[l].jsonlContent)[i])
                    .messages[3].content = <<Newline, Quote>>

\* The responses delivered so far, with the method of their request.
Responses ==
    { [method |-> collector[c].req.httpMethod,
       statusCode |-> collector[c].statusCode,
       headers |-> collector[c].headers, body |-> collector[c].body,
       fn |-> collector[c].fn] :
         c \in {x \in Collectors : collector[x].pc = "done"} }
    \cup UNION { { [method |-> f[x].method, statusCode |-> f[x].statusCode,
                    headers |-> f[x].headers, body |-> f[x].body,
                    fn |-> f[x].fn] :
                      x \in {y \in DOMAIN f : f[y].pc = "done"} } :
                 f \in {launcher, poller, generator} }

HasCorsHeaders(r) ==
    /\ r.headers.origin = "*"
    /\ r.headers.allowHeaders = "Content-Type"
    /\ r.headers.allowMethods \in {"POST, OPTIONS", "POST, GET, OPTIONS"}

\* C15 as stated: every response of the four functions, OPTIONS included,
\* carries the CORS headers and has a structured JSON body.
C15_EveryBodyIsJson ==
    \A r \in Responses : HasCorsHeaders(r) /\ r.body # ""

\* C15, amended: every response carries the CORS headers; the answer to
\* OPTIONS is 200 with an empty body; every other response has a JSON body,
\* so no error response has an empty body.
C15_CorsHeadersOnEveryResponse ==
    \A r \in Responses :
        /\ HasCorsHeaders(r)
        /\ r.statusCode \in {200, 400, 500}
        /\ r.method = "OPTIONS" => r.statusCode = 200 /\ r.body = ""
        /\ r.method # "OPTIONS" => r.body \notin {"", "none"}
        /\ r.statusCode # 200 => r.body \notin {"", "none"}

\* C15 witness: generate-report has answered 500 and check-finetune-status
\* has answered an OPTIONS request.
C15_Witness ==
    /\ \E r \in Responses : r.fn = "generate-report" /\ r.statusCode = 500
    /\ \E r \in Responses : r.fn = "check-finetune-status"
                            /\ r.method = "OPTIONS"

\* C16: a poll that finds no current_finetune_job_id answers 200 "no job in
\* progress" without a status query and without a store write, leaving
\* app_settings as it was; the status query is made only for a recorded job.
C16_IdlePollIsNoOp ==
    [][\A p \in Pollers :
          /\ poller'[p] # poller[p] /\ poller'[p].body = "noJob" =>
                /\ settings.current_finetune_job_id = Absent
                /\ poller'[p].pc = "done"
                /\ poller'[p].statusCode = 200
                /\ poller'[p].query = "none"
                /\ poller'[p].writes = 0
                /\ settings' = settings
                /\ jobs' = jobs
          /\ poller'[p] # poller[p] /\ Free(poller[p])
                /\ poller'[p].read = "ok"
                /\ settings.current_finetune_job_id = Absent =>
                poller'[p].body = "noJob"
          /\ poller[p].pc # "retrieve" /\ poller'[p].pc = "retrieve" =>
                settings.current_finetune_job_id # Absent]_vars

\* C16 witness: with a model promoted and no job recorded, a poll answered
\* "no job in progress".
C16_Witness ==
    \E p \in Pollers :
        /\ poller[p].pc = "done"
        /\ poller[p].body = "noJob"
        /\ poller[p].statusCode = 200
        /\ settings.current_finetune_job_id = Absent
        /\ settings.active_finetuned_model # Absent

\* C17 as stated: once a poll has observed succeeded without a model name
\* and has answered 200, current_finetune_job_id is absent and
\* finetune_in_progress is 'false'.
C17_UnnamedSuccessClears ==
    \A p \in Pollers :
        /\ poller[p].pc = "done"
        /\ poller[p].statusCode = 200
        /\ poller[p].status = "succeeded"
        /\ poller[p].newModelName = ""
        => /\ settings.current_finetune_job_id = Absent
           /\ settings.finetune_in_progress = "false"

\* C18 as stated: once the fine-tune function, running alone, has answered
\* "started" for the job it created, current_finetune_job_id is that job's
\* id and finetune_in_progress is 'true'.
C18_StartedRecordsJob ==
    \A l \in Launchers :
        launcher[l].pc = "done" /\ launcher[l].body = "started" =>
            /\ settings.current_finetune_job_id = launcher[l].fineTuneId
            /\ settings.finetune_in_progress = "true"

\* C19: a fine-tune invocation that reads zero rows answers 200 "nothing to
\* fine-tune" in that step, writes no temporary file, uploads nothing,
\* creates no job and leaves app_settings as it was; it goes on to the
\* upload only with at least one row.
C19_NoRowsNothingToDo ==
    [][\A l \in Launchers :
          launcher[l].pc = "fetch" /\ launcher'[l].pc # "fetch" =>
             /\ launcher'[l].pc = "upload" => Len(training_data) > 0
             /\ launcher'[l].body = "nothing" => Len(training_data) = 0
             /\ Len(training_data) = 0 =>
                   /\ launcher'[l].pc = "done"
                   /\ launcher'[l].failed \/
                         /\ launcher'[l].statusCode = 200
                         /\ launcher'[l].body = "nothing"
                   /\ launcher'[l].tempFile = "none"
                   /\ launcher'[l].fileId = 0
                   /\ launcher'[l].fineTuneId = Absent
                   /\ UNCHANGED <<settings, jobs, files>>]_vars

\* C19 witness: with no rows stored, the fine-tune function answered 200
\* "nothing to fine-tune"; there is no file and no job.
C19_Witness ==
    /\ Len(training_data) = 0
    /\ files = << >>
    /\ jobs = << >>
    /\ \E l \in Launchers :
          /\ launcher[l].pc = "done"
          /\ launcher[l].body = "nothing"
          /\ launcher[l].statusCode = 200
          /\ launcher[l].tempFile = "none"

\* C20: the file built from the rows read has as many lines as there are
\* rows, the i-th line's assistant content being the i-th row's text; the
\* file uploaded is that file, and the job is created for the base model
\* gpt-4o-2024-08-06 with the uploaded file as its training file.
C20_OneExamplePerSampleInOrder ==
    \A l \in Launchers :
        launcher[l].jsonlContent # <<>> =>
            LET ls == SplitLines(launcher[l].jsonlContent)
            IN  /\ Len(ls) = Len(training_data)
                /\ \A i \in 1..Len(ls) :
                      JsonParse(ls[i]).messages[3].content =
                          training_data[i].report_json.text.s
                /\ launcher[l].fileId # 0 =>
                      /\ launcher[l].fileId \in 1..Len(files)
                      /\ files[launcher[l].fileId] = launcher[l].jsonlContent
                /\ launcher[l].fineTuneId # Absent =>
                      LET job == jobs[JobIndex(launcher[l].fineTuneId)]
                      IN  /\ job.model = "gpt-4o-2024-08-06"
                          /\ job.training_file = launcher[l].fileId
                          /\ launcher[l].fileId # 0

\* C20 witness: a job was created from a file whose second line carries the
\* text of the newer of two rows.
C20_Witness ==
    \E l \in Launchers :
        /\ launcher[l].fineTuneId # Absent
        /\ Len(training_data) = 2
        /\ training_data[1] = SeedRow
        /\ training_data[2].report_json.text.s = <<"a", Quote>>
        /\ JsonParse(SplitLines(files[launcher[l].fileId])[2])
              .messages[3].content = <<"a", Quote>>

\* C21: an invocation whose insert failed has answered 500 after that one
\* store call, without reading the count and without invoking the fine-tune
\* function, and the step in which the insert failed leaves training_data
\* and the fine-tune function as they were.
C21_InsertFailureIsHardError ==
    [][\A c \in Collectors :
          collector'[c].ins = "failed" =>
             /\ Qualifies(collector'[c].req)
             /\ collector'[c].pc = "done"
             /\ collector'[c].statusCode = 500
             /\ collector'[c].acc = 1
             /\ collector'[c].count = -1
             /\ ~collector'[c].trig
             /\ calls' = calls + 1 =>
                   UNCHANGED <<training_data, launcher, settings>>]_vars

\* C21 witness: with four rows stored, the insert of the fifth failed; the
\* submission was answered 500 and there are still four rows.
C21_Witness ==
    /\ Len(training_data) = 4
    /\ \E c \in Collectors :
          /\ collector[c].pc = "done"
          /\ collector[c].ins = "failed"
          /\ collector[c].statusCode = 500
    /\ \A l \in Launchers : launcher[l].pc = "idle"

\* C28: an invocation whose insert succeeded and whose count read failed has
\* answered 500 without invoking the fine-tune function, and the Sample it
\* inserted is still the newest row of training_data.
C28_CountFailureAfterInsertKeepsSample ==
    \A c \in Collectors :
       LET rec == collector[c]
       IN  rec.ins = "ok" /\ rec.acc = 2 /\ rec.count = -1
           => /\ rec.pc = "done"
              /\ rec.statusCode = 500
              /\ rec.body = "error"
              /\ ~rec.trig
              /\ Len(training_data) > 0
              /\ training_data[Len(training_data)] = SampleOf(rec.req)

\* C28 witness: the fifth row was inserted, the count read failed, the
\* submission was answered 500 and no fine-tune was started at the boundary.
C28_Witness ==
    /\ Len(training_data) = 5
    /\ \E c \in Collectors :
          /\ collector[c].pc = "done"
          /\ collector[c].ins = "ok"
          /\ collector[c].acc = 2
          /\ collector[c].count = -1
          /\ collector[c].statusCode = 500
    /\ \A l \in Launchers : launcher[l].pc = "idle"

\* C24 as stated: a poll during which the upsert of active_finetuned_model,
\* the delete of current_finetune_job_id or the upsert of finetune_in_progress
\* failed has answered its caller with an error (500), never with a success
\* outcome.
C24_PollWriteFailurePropagates ==
    \A p \in Pollers :
        poller[p].pc = "done" /\ poller[p].wfail
        => poller[p].statusCode = 500 /\ poller[p].body = "error"

\* C26 as stated: the delete of a poll that read handle J leaves a different
\* handle found in current_finetune_job_id at that moment in place, and the
\* poll's flag write does not put finetune_in_progress to 'false' while such
\* a handle is recorded.
C26_PollClearsOnlyItsOwnHandle ==
    [][\A p \in Pollers :
          LET other == /\ settings.current_finetune_job_id # Absent
                       /\ settings.current_finetune_job_id # poller[p].jobId
          IN  /\ poller[p].pc = "deleteJob" /\ poller'[p].pc # "deleteJob"
                 /\ other
                 => settings'.current_finetune_job_id =
                        settings.current_finetune_job_id
              /\ poller[p].pc = "setFlag" /\ poller'[p].pc # "setFlag"
                 /\ other
                 => settings'.finetune_in_progress # "false"]_vars

\* C25: active_finetuned_model starts absent or as the model of a succeeded
\* job, and it changes only in a poll's upsert, to the non-empty
\* fine_tuned_model of the job whose handle that poll read from
\* current_finetune_job_id and retrieved as succeeded; no step deletes the
\* key or empties it.
C25_ActiveModelIsAPromotedModel ==
    [][/\ settings'.active_finetuned_model # settings.active_finetuned_model
          => \E p \in Pollers :
                LET rec == poller[p]
                    job == jobs[JobIndex(rec.jobId)]
                IN  /\ rec.pc = "upsertModel"
                    /\ rec.read = "ok" /\ rec.jobId # Absent
                    /\ rec.status = "succeeded"
                    /\ job.status = "succeeded"
                    /\ job.fine_tuned_model = rec.newModelName
                    /\ rec.newModelName \notin {"", Absent}
                    /\ settings'.active_finetuned_model = rec.newModelName
       /\ settings'.active_finetuned_model \in
             {Absent} \cup { jobs'[j].fine_tuned_model : j \in
                               {i \in 1..Len(jobs') :
                                   /\ jobs'[i].status = "succeeded"
                                   /\ jobs'[i].fine_tuned_model # ""} }]_vars

\* C25 witness: a value was there from the start and the second job, launched
\* and polled since, has replaced it with its own model.
C25_Witness ==
    /\ Len(jobs) = 2
    /\ jobs[2].status = "succeeded"
    /\ settings.active_finetuned_model = ModelNames[2]
    /\ \E p \in Pollers :
          /\ poller[p].pc = "done"
          /\ poller[p].jobId = JobIds[2]
          /\ poller[p].statusCode = 200

\* Job j exists at the provider, current_finetune_job_id does not hold its
\* handle, the invocation that created it is past its upsert, and no poll
\* that read its handle is still running.
Orphaned(j) ==
    /\ j \in 1..Len(jobs)
    /\ settings.current_finetune_job_id # JobIds[j]
    /\ \A l \in Launchers :
          ~(launcher[l].pc = "storeJobId" /\ launcher[l].fineTuneId = JobIds[j])
    /\ \A p \in Pollers :
          ~(~Free(poller[p]) /\ poller[p].jobId = JobIds[j])

\* C23, amended: the upsert of current_finetune_job_id is unconditional, so a
\* launch made while a handle is recorded replaces it; a job whose handle is
\* not recorded, and which no poll that read the handle earlier is still
\* working on, stays that way: no poll retrieves it and it is not promoted to
\* active_finetuned_model.
C23_OverwrittenJobIsOrphaned ==
    [][/\ \A l \in Launchers :
             /\ launcher[l].pc = "storeJobId"
             /\ launcher'[l].pc = "storeFlag"
             /\ ~launcher'[l].failed
             => settings'.current_finetune_job_id = launcher[l].fineTuneId
       /\ \A j \in 1..Len(jobs) :
             Orphaned(j) =>
                /\ Orphaned(j)'
                /\ jobs'[j] = jobs[j]
                /\ \A p \in Pollers :
                      poller'[p].query # poller[p].query =>
                         poller'[p].jobId # JobIds[j]
                /\ settings'.active_finetuned_model #
                       settings.active_finetuned_model
                   => settings'.active_finetuned_model # ModelNames[j]]_vars

\* C23 witness: two invocations have each created a job and each answered
\* 'started'; the second handle is recorded over the first, the first job
\* still exists at the provider, unfinished, and nothing in the store names
\* it.
C23_Witness ==
    /\ Len(jobs) = 2
    /\ settings.current_finetune_job_id = JobIds[2]
    /\ Orphaned(1)
    /\ jobs[1].status \notin {"succeeded", "failed", "cancelled"}
    /\ \E l1, l2 \in Launchers :
          /\ launcher[l1].pc = "done" /\ launcher[l2].pc = "done"
          /\ launcher[l1].fineTuneId = JobIds[1]
          /\ launcher[l2].fineTuneId = JobIds[2]
          /\ launcher[l1].statusCode = 200 /\ ~launcher[l1].failed
          /\ launcher[l2].statusCode = 200 /\ ~launcher[l2].failed

\* C23 as stated: once another handle is recorded in
\* current_finetune_job_id, no poll retrieves the earlier job and none
\* promotes it.
C23_NoPollTouchesOverwrittenJob ==
    [][\A p \in Pollers :
          /\ settings.current_finetune_job_id # Absent
          /\ settings.current_finetune_job_id # poller[p].jobId
          => /\ ~(poller[p].pc = "retrieve" /\ poller'[p].query = "ok")
             /\ ~(/\ poller[p].pc = "upsertModel"
                  /\ settings'.active_finetuned_model #
                         settings.active_finetuned_model)]_vars

\* C22: whether an invocation triggers the fine-tune function is decided by
\* the count it reads, which is the number of rows at the time of the read
\* and not the position of its own row: it has triggered exactly when that
\* count was a positive multiple of 5, whatever other invocations did with
\* the same count.
C22_TriggerFollowsTheCountRead ==
    \A c \in Collectors :
       LET rec == collector[c]
       IN  /\ rec.trig \/ rec.pc = "trigger"
              => rec.count > 0 /\ rec.count % BatchSize = 0
           /\ rec.pc = "done" /\ rec.ins = "ok" /\ rec.count # -1 /\ ~rec.trig
              => rec.count % BatchSize # 0
           /\ rec.count # -1
              => /\ rec.count \in 1..Len(training_data)
                 /\ \E i \in 1..rec.count :
                       training_data[i] = SampleOf(rec.req)

\* C22 witness, both trigger: two submissions were in flight together, each
\* inserted its row (the fourth and the fifth), each then read the count 5,
\* and each has invoked the fine-tune function for that one boundary.
C22_Witness ==
    /\ Len(training_data) = 5
    /\ \A c \in Collectors :
          /\ collector[c].ins = "ok"
          /\ collector[c].count = 5
          /\ collector[c].trig
    /\ \A l \in Launchers : launcher[l].pc # "idle"

\* C22, neither triggers: two submissions were in flight together, their rows
\* are the fifth and the sixth, each read the count 6 and each was answered
\* 'stored'; no fine-tune invocation was made while the count passed 5.
C22_NeitherTriggers ==
    /\ Len(training_data) = 6
    /\ \A c \in Collectors :
          /\ collector[c].pc = "done"
          /\ collector[c].ins = "ok"
          /\ collector[c].count = 6
          /\ ~collector[c].trig
          /\ collector[c].statusCode = 200
    /\ \A l \in Launchers : launcher[l].pc = "idle"
    /\ calls = 2

\* No job is recorded and no fine-tune is marked as in progress.
Cleared ==
    /\ settings.current_finetune_job_id = Absent
    /\ settings.finetune_in_progress = "false"

\* C27: with polls that keep coming and calls that succeed, a recorded job
\* that has reached succeeded or failed while a poll can still be made leads
\* to current_finetune_job_id absent and finetune_in_progress = 'false'; from
\* then on the store stays that way, and every further poll finds no job and
\* answers that none is in progress.
C27_TerminalJobIsEventuallyCleared ==
    /\ (/\ settings.current_finetune_job_id = JobIds[1]
        /\ jobs[1].status \in {"succeeded", "failed"}
        /\ calls < MaxCalls) ~> Cleared
    /\ [](Cleared => []Cleared)
    /\ [][\A p \in Pollers :
             Cleared /\ calls' = calls + 1
             => /\ poller'[p].pc = "done"
                /\ poller'[p].statusCode = 200
                /\ poller'[p].body = "noJob"]_vars

\* C27 witness: the job was polled while it ran, it then succeeded, the next
\* poll promoted and cleared it, and the store is idle again.
C27_Witness ==
    /\ Cleared
    /\ calls = MaxCalls
    /\ jobs[1].status = "succeeded"
    /\ settings.active_finetuned_model = ModelNames[1]
    /\ \E p \in Pollers :
          /\ poller[p].pc = "done"
          /\ poller[p].status = "succeeded"
          /\ poller[p].writes = 3

====
